---- MODULE Spec2Model ----
(***************************************************************************)
(* Model of the task / withdrawal ledger of src/main.py.                   *)
(*                                                                         *)
(* Two threads touch the Firestore collections:                            *)
(*   - the telegram dispatcher, which runs the update handlers one update  *)
(*     at a time (ApplicationBuilder().build() without concurrent updates),*)
(*     each handler being a sequence of blocking store calls;              *)
(*   - the run_automation thread started by main().                        *)
(* A step of the model is one store call (or a handler's leading reads up  *)
(* to its first write), so the two threads interleave between store calls. *)
(***************************************************************************)
EXTENDS Integers, Sequences, FiniteSets, TLC

VARIABLES users, config, tasks, wds, seen, conv, h, auto, tlog, wlog,
          DEFAULT_CONFIG, cfg, sent, bonuses

vars == <<users, config, tasks, wds, seen, conv, h, auto, tlog, wlog,
         DEFAULT_CONFIG, cfg, sent, bonuses>>

----------------------------------------------------------------------------
(* Bounds of the model *)

MaxTasks == 2
MaxUserTasks == 1
MaxWds == 1
MaxBalance == 100
MaxApps == 2

(* Program constants *)

OWNER_ID == 1
DefaultTaskPrice == 20
DefaultReferralBonus == 5
DefaultMinWithdraw == 50
AutoApproveScore == 5
DefaultWorkStart == 930
DefaultWorkEnd == 1380
SleepSeconds == 300
AppLimit == 1

Users == {1, 2}
(* The users who submit tasks and ask for withdrawals, and the users and   *)
(* choices the admin balance screen is used on.                            *)
Submitters == {2}
Withdrawers == {2}
AdjustTargets == {2}
BalActions == {"add", "cut"}
NoRef == 0

----------------------------------------------------------------------------
(* Python floats: balances and withdrawal amounts are floats, and float()  *)
(* of a message text can yield nan, for which every comparison is False.   *)

F(n) == [nan |-> FALSE, v |-> n]
NaN == [nan |-> TRUE, v |-> 0]

FAdd(a, b) == IF a.nan \/ b.nan THEN NaN ELSE F(a.v + b.v)
FNeg(a) == IF a.nan THEN NaN ELSE F(0 - a.v)
FLt(a, b) == ~a.nan /\ ~b.nan /\ a.v < b.v
FGt(a, b) == ~a.nan /\ ~b.nan /\ a.v > b.v
FGe(a, b) == ~a.nan /\ ~b.nan /\ a.v >= b.v
FLe(a, b) == ~a.nan /\ ~b.nan /\ a.v <= b.v

(* float(update.message.text) on the message texts the model sends *)
AmountTexts == {"40", "50", "nan", "abc"}
ParseFloat(text) ==
    CASE text = "40" -> [ok |-> TRUE, val |-> F(40)]
      [] text = "50" -> [ok |-> TRUE, val |-> F(50)]
      [] text = "nan" -> [ok |-> TRUE, val |-> NaN]
      [] OTHER -> [ok |-> FALSE, val |-> F(0)]

----------------------------------------------------------------------------
(* str.lower() and str.strip() on names, a name being a tuple of characters *)

LowerChar(c) == CASE c = "A" -> "a" [] c = "B" -> "b" [] OTHER -> c
Lower(s) == [i \in 1..Len(s) |-> LowerChar(s[i])]

RECURSIVE LStrip(_)
LStrip(s) == IF s # <<>> /\ Head(s) = " " THEN LStrip(Tail(s)) ELSE s

RECURSIVE RStrip(_)
RStrip(s) ==
    IF s # <<>> /\ s[Len(s)] = " " THEN RStrip(SubSeq(s, 1, Len(s) - 1)) ELSE s

Strip(s) == LStrip(RStrip(s))

NameMatches(review_name, userName) ==
    Strip(Lower(review_name)) = Strip(Lower(userName))

(* What users type as review name, and what the Play Store listing returns *)
NameTexts == {<<"A">>, <<"b", " ">>}
Apps == {1, 2}
PlayStore ==
    [a \in Apps |->
        IF a = 1
        THEN << [reviewId |-> 1, userName |-> <<"a", " ">>, score |-> 5, old |-> FALSE],
                [reviewId |-> 2, userName |-> <<"B">>, score |-> 4, old |-> FALSE],
                [reviewId |-> 3, userName |-> <<"b">>, score |-> 5, old |-> TRUE] >>
        ELSE << [reviewId |-> 4, userName |-> <<" ", "B">>, score |-> 5, old |-> FALSE] >>]

----------------------------------------------------------------------------
(* Store primitives *)

is_admin_Anyone(user_id) == TRUE

is_admin(user_id) ==
    \/ user_id = OWNER_ID
    \/ users[user_id].exists /\ users[user_id].is_admin

get_app_task_count(app_id) ==
    Cardinality({t \in DOMAIN tasks :
        tasks[t].app_id = app_id /\ tasks[t].status \in {"pending", "approved"}})

Idle ==
    [pc |-> "idle", op |-> "none", actor |-> 0, id |-> 0, action |-> "none",
     amount |-> F(0), result |-> "none"]

Reply(op, actor, id, action, result) ==
    [pc |-> "reply", op |-> op, actor |-> actor, id |-> id, action |-> action,
     amount |-> F(0), result |-> result]

(* time.sleep at the end of the loop body, after a cycle that did or did  *)
(* not meet an exception                                                   *)
SleepAfter(err) == SleepSeconds

(* The automation thread between two cycles. skipped holds the positions   *)
(* of the apps whose processing raised in the cycle, err tells whether the *)
(* cycle met an exception and wait is the sleep it ended with.             *)
AutoSleep(skipped, err) ==
    [pc |-> "sleep", apps |-> <<>>, app |-> 0, rev |-> 0, t |-> 0, price |-> 0,
     skipped |-> skipped, err |-> err, wait |-> SleepAfter(err)]

AutoIdle == AutoSleep({}, FALSE)

NoUser ==
    [exists |-> FALSE, balance |-> F(0), total_tasks |-> 0, referrer |-> NoRef,
     is_blocked |-> FALSE, is_admin |-> FALSE]

NoConv == [st |-> "END", tid |-> 0, rname |-> <<>>, wd |-> "END"]

----------------------------------------------------------------------------
(* DEFAULT_CONFIG as the source writes it; the variable DEFAULT_CONFIG is  *)
(* the module-level dict at run time, which starts with this value.        *)
HardCodedDefaults ==
    [task_price |-> DefaultTaskPrice,
     referral_bonus |-> DefaultReferralBonus,
     min_withdraw |-> DefaultMinWithdraw,
     monitored_apps |-> <<>>,
     work_start_time |-> DefaultWorkStart,
     work_end_time |-> DefaultWorkEnd,
     buttons |-> [submit |-> TRUE]]

(* settings/main_config is a record of the fields it holds; the record     *)
(* with no field stands for the document that does not exist.              *)
NoRecord == [k \in {} |-> 0]

doc_exists(record) == DOMAIN record # {}

(* get_config when the store answers (ok) or raises: data is the dict it   *)
(* returns, record the stored document after the call, and shared the keys *)
(* of data whose values are the very objects held by DEFAULT_CONFIG.       *)
get_config(ok) ==
    IF ~ok
    THEN [data |-> DEFAULT_CONFIG, record |-> config,
          shared |-> DOMAIN DEFAULT_CONFIG]
    ELSE IF doc_exists(config)
    THEN [data |-> [key \in DOMAIN config \cup DOMAIN DEFAULT_CONFIG |->
                       IF key \in DOMAIN config
                       THEN config[key] ELSE DEFAULT_CONFIG[key]],
          record |-> config,
          shared |-> DOMAIN DEFAULT_CONFIG \ DOMAIN config]
    ELSE [data |-> DEFAULT_CONFIG, record |-> DEFAULT_CONFIG,
          shared |-> DOMAIN DEFAULT_CONFIG]

(* A change made in place to data[key] of a dict that get_config returned: *)
(* what DEFAULT_CONFIG holds after it.                                     *)
InPlace(got, key, val) ==
    IF key \in got.shared
    THEN [DEFAULT_CONFIG EXCEPT ![key] = val]
    ELSE DEFAULT_CONFIG

(* document.set(data) without merge: the record becomes data *)
update_config_Replace(record, data, ok) ==
    IF ok THEN data ELSE record

(* update_config: set(data, merge=True) on the stored record, which a      *)
(* failure of the store leaves as it is; the exception is logged and       *)
(* nothing is returned or raised.                                          *)
update_config(record, data, ok) ==
    IF ok
    THEN [key \in DOMAIN record \cup DOMAIN data |->
             IF key \in DOMAIN data THEN data[key] ELSE record[key]]
    ELSE record

(* The config calls of the last handler among those of the config screens  *)
(* and the submit screen: the stored record before it, whether its read    *)
(* and its write of the store succeeded, what its first get_config         *)
(* returned, the number of times it read the record, and what it told the  *)
(* admin. good is the last dict that a get_config of these handlers        *)
(* fetched from the store.                                                 *)
NoCalls ==
    [op |-> "none", rok |-> TRUE, wok |-> TRUE, before |-> NoRecord,
     ret |-> NoRecord, reads |-> 0, said |-> "none", good |-> NoRecord]

ConfigCalls(op, rok, wok, ret, reads, said) ==
    [op |-> op, rok |-> rok, wok |-> wok, before |-> config, ret |-> ret,
     reads |-> reads, said |-> said,
     good |-> IF rok /\ reads > 0 THEN ret ELSE cfg.good]

(* The state after construction, but for the stored config record *)
InitLedger ==
    /\ users = [u \in Users |-> NoUser]
    /\ DEFAULT_CONFIG = HardCodedDefaults
    /\ cfg = NoCalls
    /\ sent = {}
    /\ bonuses = [u \in Users |-> 0]
    /\ tasks = <<>>
    /\ wds = <<>>
    /\ seen = {}
    /\ conv = [u \in Users |-> NoConv]
    /\ h = Idle
    /\ auto = AutoIdle
    /\ tlog = <<>>
    /\ wlog = <<>>

(* The stored record of a deployment in use: every field, one app *)
Init ==
    /\ InitLedger
    /\ config = [HardCodedDefaults EXCEPT
                    !.monitored_apps = <<[id |-> 1, limit |-> AppLimit]>>]

----------------------------------------------------------------------------
(* Dispatcher thread: one update handler at a time.                        *)

DispatcherFree_ConcurrentUpdates == TRUE

DispatcherFree == h.pc = "idle"

(* get_user: whether it returns a record. It returns None for a user who  *)
(* has no record and also when the read of the store raises (ok is false). *)
get_user(user_id, ok) == ok /\ users[user_id].exists

(* create_user, called by start: the record is written only when get_user  *)
(* returns none, and the bonus goes to the referrer named in the /start    *)
(* link.                                                                   *)
ValidReferrer(user_id, referrer_id) ==
    referrer_id # NoRef /\ referrer_id # user_id

ReferralBonus(user_id, referrer_id, ok) ==
    IF /\ ~get_user(user_id, ok)
       /\ ValidReferrer(user_id, referrer_id)
       /\ get_config(TRUE).data.referral_bonus > 0
       /\ users[referrer_id].exists
    THEN get_config(TRUE).data.referral_bonus
    ELSE 0

create_user(user_id, referrer_id, ok) ==
    IF get_user(user_id, ok)
    THEN users
    ELSE LET created ==
                 [users EXCEPT ![user_id] =
                     [exists |-> TRUE, balance |-> F(0), total_tasks |-> 0,
                      referrer |-> IF ValidReferrer(user_id, referrer_id)
                                   THEN referrer_id ELSE NoRef,
                      is_blocked |-> FALSE,
                      is_admin |-> (user_id = OWNER_ID)]]
             bonus == ReferralBonus(user_id, referrer_id, ok)
         IN  IF bonus > 0
             THEN [created EXCEPT ![referrer_id].balance = FAdd(@, F(bonus))]
             ELSE created

(* bonuses holds, for every user, the sum of the referral bonuses that     *)
(* create_user has added to the user's balance.                            *)
BonusesAfter(user_id, referrer_id, ok) ==
    IF ReferralBonus(user_id, referrer_id, ok) > 0
    THEN [bonuses EXCEPT ![referrer_id] =
             @ + ReferralBonus(user_id, referrer_id, ok)]
    ELSE bonuses

(* start: create_user, then the menu, whose buttons are read from the     *)
(* config.                                                                 *)
start(u, referrer) ==
    /\ DispatcherFree
    /\ users' = create_user(u, referrer, TRUE)
    /\ bonuses' = BonusesAfter(u, referrer, TRUE)
    /\ config' = IF users[u].exists /\ users[u].is_blocked
                 THEN config
                 ELSE get_config(TRUE).record
    /\ UNCHANGED <<tasks, wds, seen, conv, h, auto, tlog, wlog, DEFAULT_CONFIG,
                   cfg, sent>>

(* start when the read of get_user in create_user raises and the store     *)
(* answers again afterwards                                                *)
StartGetUserFails(u, referrer) ==
    /\ DispatcherFree
    /\ users' = create_user(u, referrer, FALSE)
    /\ bonuses' = BonusesAfter(u, referrer, FALSE)
    /\ \A x \in Users : bonuses'[x] <= MaxBalance
    /\ \A x \in Users :
          ~users'[x].balance.nan => users'[x].balance.v <= MaxBalance
    /\ config' = get_config(TRUE).record
    /\ UNCHANGED <<tasks, wds, seen, conv, h, auto, tlog, wlog, DEFAULT_CONFIG,
                   cfg, sent>>

(* is_working_hour: times of day are minutes since midnight *)
Times == {0, 930, 1380, 1381}

is_working_hour(now) ==
    LET start_t == get_config(TRUE).data.work_start_time
        end_t == get_config(TRUE).data.work_end_time
    IN  IF start_t < end_t
        THEN start_t <= now /\ now <= end_t
        ELSE now >= start_t \/ now <= end_t

AppLookup(app_id) ==
    {i \in DOMAIN config.monitored_apps : config.monitored_apps[i].id = app_id}

(* The task submission conversation. The submit button is part of the menu *)
(* that start sends after create_user, so the user has a record.           *)
start_task_submission(u, now) ==
    /\ DispatcherFree
    /\ users[u].exists
    /\ conv[u].st = "END"
    /\ LET got == get_config(TRUE)
       IN  /\ conv' = [conv EXCEPT ![u].st =
                   IF is_working_hour(now) /\ got.data.monitored_apps # <<>>
                   THEN "T_APP_SELECT" ELSE "END"]
           /\ config' = got.record
           /\ cfg' = ConfigCalls("submit", TRUE, TRUE, got.data, 2, "none")
    /\ UNCHANGED <<users, tasks, wds, seen, h, auto, tlog, wlog,
                   DEFAULT_CONFIG, sent, bonuses>>

app_selected(u, app_id) ==
    /\ DispatcherFree
    /\ conv[u].st = "T_APP_SELECT"
    /\ conv' = [conv EXCEPT ![u] =
         IF AppLookup(app_id) = {}
         THEN [@ EXCEPT !.st = "END"]
         ELSE LET app == config.monitored_apps[CHOOSE i \in AppLookup(app_id) :
                            \A j \in AppLookup(app_id) : i <= j]
              IN  IF get_app_task_count(app_id) >= app.limit
                  THEN [@ EXCEPT !.st = "END"]
                  ELSE [@ EXCEPT !.st = "T_REVIEW_NAME", !.tid = app_id]]
    /\ UNCHANGED <<users, config, tasks, wds, seen, h, auto, tlog, wlog,
                   DEFAULT_CONFIG, cfg, sent, bonuses>>

(* get_review_name; get_email and get_device only store opaque fields and  *)
(* lead on to the screenshot step.                                         *)
get_review_name(u, text) ==
    /\ DispatcherFree
    /\ conv[u].st = "T_REVIEW_NAME"
    /\ conv' = [conv EXCEPT ![u].st = "T_SS", ![u].rname = Strip(text)]
    /\ UNCHANGED <<users, config, tasks, wds, seen, h, auto, tlog, wlog,
                   DEFAULT_CONFIG, cfg, sent, bonuses>>

NewTaskPrice == config.task_price

NewTask(u) ==
    [user_id |-> u, app_id |-> conv[u].tid, review_name |-> conv[u].rname,
     status |-> "pending", price |-> NewTaskPrice, approved_at |-> FALSE,
     processed_by |-> 0]

(* Per task: the status writes and credits applied so far, and the ids of  *)
(* the reviews on which the automation wrote approved.                     *)
NoLog == [writes |-> 0, credits |-> 0, tt |-> 0, amount |-> 0, rids |-> <<>>]

save_task(u) ==
    /\ DispatcherFree
    /\ conv[u].st = "T_SS"
    /\ Len(tasks) < MaxTasks
    /\ Cardinality({t \in DOMAIN tasks : tasks[t].user_id = u}) < MaxUserTasks
    /\ tasks' = Append(tasks, NewTask(u))
    /\ tlog' = Append(tlog, NoLog)
    /\ conv' = [conv EXCEPT ![u] = [NoConv EXCEPT !.wd = conv[u].wd]]
    /\ UNCHANGED <<users, config, wds, seen, h, auto, wlog, DEFAULT_CONFIG,
                   cfg, sent, bonuses>>

(* The reply, edit and notification calls that end a handler *)
Finish ==
    /\ h.pc = "reply"
    /\ h' = Idle
    /\ UNCHANGED <<users, config, tasks, wds, seen, conv, auto, tlog, wlog,
                   DEFAULT_CONFIG, cfg, sent, bonuses>>

----------------------------------------------------------------------------
(* handle_task_action: the approve / reject buttons under a task           *)

TaskAlreadyProcessed_OnlyApproved(t_data) == t_data.status = "approved"

TaskAlreadyProcessed(t_data) == t_data.status # "pending"

ApprovalPrice_Current(t_data) == config.task_price

ApprovalPrice(t_data) == t_data.price

TaskRead(actor, action, t) ==
    /\ DispatcherFree
    /\ t \in DOMAIN tasks
    /\ h' = IF ~is_admin(actor)
            THEN Reply("handle_task_action", actor, t, action, "not_admin")
            ELSE IF TaskAlreadyProcessed(tasks[t])
            THEN Reply("handle_task_action", actor, t, action, "already")
            ELSE [pc |-> "t_status", op |-> "handle_task_action",
                  actor |-> actor, id |-> t, action |-> action,
                  amount |-> F(ApprovalPrice(tasks[t])), result |-> "none"]
    /\ UNCHANGED <<users, config, tasks, wds, seen, conv, auto, tlog, wlog,
                   DEFAULT_CONFIG, cfg, sent, bonuses>>

TaskWriteStatus_FallThrough ==
    /\ h.pc = "t_status"
    /\ tasks' = [tasks EXCEPT ![h.id] =
                    IF h.action = "apr"
                    THEN [@ EXCEPT !.status = "approved", !.approved_at = TRUE]
                    ELSE [@ EXCEPT !.status = "rejected",
                                   !.processed_by = h.actor]]
    /\ tlog' = [tlog EXCEPT ![h.id].writes = @ + 1]
    /\ h' = [h EXCEPT !.pc = "t_credit"]
    /\ UNCHANGED <<users, config, wds, seen, conv, auto, wlog, DEFAULT_CONFIG,
                   cfg, sent, bonuses>>

TaskWriteStatus ==
    /\ h.pc = "t_status"
    /\ tasks' = [tasks EXCEPT ![h.id] =
                    IF h.action = "apr"
                    THEN [@ EXCEPT !.status = "approved", !.approved_at = TRUE]
                    ELSE [@ EXCEPT !.status = "rejected",
                                   !.processed_by = h.actor]]
    /\ tlog' = [tlog EXCEPT ![h.id].writes = @ + 1]
    /\ h' = IF h.action = "apr"
            THEN [h EXCEPT !.pc = "t_credit"]
            ELSE Reply(h.op, h.actor, h.id, h.action, "ok")
    /\ UNCHANGED <<users, config, wds, seen, conv, auto, wlog, DEFAULT_CONFIG,
                   cfg, sent, bonuses>>

ManualCredit_PaysReferrer(user_id, price) ==
    LET r == users[user_id].referrer
        credited == [users EXCEPT ![user_id].balance = FAdd(@, price),
                                  ![user_id].total_tasks = @ + 1]
    IN  IF r # NoRef /\ users[r].exists
        THEN [credited EXCEPT ![r].balance = FAdd(@, F(config.referral_bonus))]
        ELSE credited

(* users.document(user_id).update({balance: Increment(price),             *)
(*                                  total_tasks: Increment(1)})             *)
ManualCredit(user_id, price) ==
    [users EXCEPT ![user_id].balance = FAdd(@, price),
                  ![user_id].total_tasks = @ + 1]

TaskCredit ==
    /\ h.pc = "t_credit"
    /\ LET owner == tasks[h.id].user_id
       IN  /\ users' = ManualCredit(owner, h.amount)
           /\ tlog' = [tlog EXCEPT ![h.id].credits = @ + 1,
                                   ![h.id].tt = @ + 1,
                                   ![h.id].amount = @ + h.amount.v]
    /\ h' = Reply(h.op, h.actor, h.id, h.action, "ok")
    /\ UNCHANGED <<config, tasks, wds, seen, conv, auto, wlog, DEFAULT_CONFIG,
                   cfg, sent, bonuses>>

----------------------------------------------------------------------------
(* Withdrawals *)

withdraw_start(u) ==
    /\ DispatcherFree
    /\ users[u].exists
    /\ conv[u].wd = "END"
    /\ conv' = [conv EXCEPT ![u].wd =
                   IF FLt(users[u].balance, F(config.min_withdraw))
                   THEN "END" ELSE "WD_AMOUNT"]
    /\ UNCHANGED <<users, config, tasks, wds, seen, h, auto, tlog, wlog,
                   DEFAULT_CONFIG, cfg, sent, bonuses>>

(* The two checks of withdraw_amount: the reason the request is turned     *)
(* away, or "ok".                                                          *)
WithdrawCheck(amount, balance) ==
    IF FLt(amount, F(config.min_withdraw)) THEN "below_min"
    ELSE IF FGt(amount, balance) THEN "insufficient"
    ELSE "ok"

WaRead(u, text) ==
    /\ DispatcherFree
    /\ conv[u].wd = "WD_AMOUNT"
    /\ Len(wds) < MaxWds
    /\ conv' = [conv EXCEPT ![u].wd = "END"]
    /\ LET parsed == ParseFloat(text)
           verdict == WithdrawCheck(parsed.val, users[u].balance)
       IN  h' = IF ~parsed.ok
                THEN Reply("withdraw_amount", u, 0, "none", "bad_input")
                ELSE IF verdict # "ok"
                THEN [Reply("withdraw_amount", u, 0, "none", verdict)
                         EXCEPT !.amount = parsed.val]
                ELSE [pc |-> "wa_write", op |-> "withdraw_amount",
                      actor |-> u, id |-> 0, action |-> "none",
                      amount |-> parsed.val, result |-> "none"]
    /\ UNCHANGED <<users, config, tasks, wds, seen, auto, tlog, wlog,
                   DEFAULT_CONFIG, cfg, sent, bonuses>>

(* Per withdrawal: the status writes and refunds applied so far, and the    *)
(* owner's balance just before the debit of the request.                   *)
NoWLog == [writes |-> 0, refunds |-> 0, before |-> F(0)]

Debit_Nothing(user_id, amount) == users

(* users.document(user_id).update({balance: Increment(-amount)}) *)
Debit(user_id, amount) ==
    [users EXCEPT ![user_id].balance = FAdd(@, FNeg(amount))]

(* The debit and the add of the record, two store writes in a row that no  *)
(* other thread reads in between.                                          *)
WaWrite ==
    /\ h.pc = "wa_write"
    /\ users' = Debit(h.actor, h.amount)
    /\ wds' = Append(wds, [user_id |-> h.actor, amount |-> h.amount,
                           status |-> "pending", processed_by |-> 0])
    /\ wlog' = Append(wlog, [NoWLog EXCEPT !.before = users[h.actor].balance])
    /\ h' = [Reply(h.op, h.actor, Len(wds) + 1, "none", "ok")
                EXCEPT !.amount = h.amount]
    /\ UNCHANGED <<config, tasks, seen, conv, auto, tlog, DEFAULT_CONFIG, cfg,
                   sent, bonuses>>

WdAlreadyProcessed_OnlyApproved(wd_data) == wd_data.status = "approved"

WdAlreadyProcessed(wd_data) == wd_data.status # "pending"

WdRead(actor, action, w) ==
    /\ DispatcherFree
    /\ w \in DOMAIN wds
    /\ h' = IF ~is_admin(actor)
            THEN Reply("handle_withdrawal_action", actor, w, action, "not_admin")
            ELSE IF WdAlreadyProcessed(wds[w])
            THEN Reply("handle_withdrawal_action", actor, w, action, "already")
            ELSE [pc |-> "wd_status", op |-> "handle_withdrawal_action",
                  actor |-> actor, id |-> w, action |-> action,
                  amount |-> wds[w].amount, result |-> "none"]
    /\ UNCHANGED <<users, config, tasks, wds, seen, conv, auto, tlog, wlog,
                   DEFAULT_CONFIG, cfg, sent, bonuses>>

WdWriteStatus ==
    /\ h.pc = "wd_status"
    /\ wds' = [wds EXCEPT ![h.id].status =
                  IF h.action = "apr" THEN "approved" ELSE "rejected",
                          ![h.id].processed_by = h.actor]
    /\ wlog' = [wlog EXCEPT ![h.id].writes = @ + 1]
    /\ h' = IF h.action = "apr"
            THEN Reply(h.op, h.actor, h.id, h.action, "ok")
            ELSE [h EXCEPT !.pc = "wd_refund"]
    /\ UNCHANGED <<users, config, tasks, seen, conv, auto, tlog,
                   DEFAULT_CONFIG, cfg, sent, bonuses>>

(* users.document(user_id).update({balance: Increment(amount)}) *)
Refund(user_id, amount) ==
    [users EXCEPT ![user_id].balance = FAdd(@, amount)]

WdRefund ==
    /\ h.pc = "wd_refund"
    /\ users' = Refund(wds[h.id].user_id, h.amount)
    /\ wlog' = [wlog EXCEPT ![h.id].refunds = @ + 1]
    /\ h' = Reply(h.op, h.actor, h.id, h.action, "ok")
    /\ UNCHANGED <<config, tasks, wds, seen, conv, auto, tlog, DEFAULT_CONFIG,
                   cfg, sent, bonuses>>

----------------------------------------------------------------------------
(* Admin screens *)

(* user_balance_update, on the user found by find_user_result and with the *)
(* add / cut choice of user_action_handler.                                *)
AdjustTexts == {"50"}

user_balance_update(uid, bal_action, text) ==
    /\ DispatcherFree
    /\ users[uid].exists
    /\ LET parsed == ParseFloat(text)
           val == IF bal_action = "add" THEN parsed.val ELSE FNeg(parsed.val)
           newbal == FAdd(users[uid].balance, val)
       IN  /\ parsed.ok
           /\ ~newbal.nan => (newbal.v <= MaxBalance /\ newbal.v >= 0 - MaxBalance)
           /\ users' = [users EXCEPT ![uid].balance = newbal]
    /\ UNCHANGED <<config, tasks, wds, seen, conv, h, auto, tlog, wlog,
                   DEFAULT_CONFIG, cfg, sent, bonuses>>

(* user_action_handler on u_toggle_block: the is_blocked flag of the user  *)
(* find_user_result found is flipped.                                      *)
u_toggle_block(uid) ==
    /\ DispatcherFree
    /\ users[uid].exists
    /\ users' = [users EXCEPT ![uid].is_blocked = ~@]
    /\ UNCHANGED <<config, tasks, wds, seen, conv, h, auto, tlog, wlog,
                   DEFAULT_CONFIG, cfg, sent, bonuses>>

(* add_admin_save and rmv_admin_save, on the id the admin typed: the first *)
(* sets the flag in the user's record, the second clears it unless the id  *)
(* is the owner's.                                                         *)
add_admin_save(uid) ==
    /\ DispatcherFree
    /\ users' = [users EXCEPT ![uid].exists = TRUE, ![uid].is_admin = TRUE]
    /\ UNCHANGED <<config, tasks, wds, seen, conv, h, auto, tlog, wlog,
                   DEFAULT_CONFIG, cfg, sent, bonuses>>

rmv_admin_save(uid) ==
    /\ DispatcherFree
    /\ uid # OWNER_ID
    /\ users[uid].exists
    /\ users' = [users EXCEPT ![uid].is_admin = FALSE]
    /\ UNCHANGED <<config, tasks, wds, seen, conv, h, auto, tlog, wlog,
                   DEFAULT_CONFIG, cfg, sent, bonuses>>

(* task_price has no edit screen: the field is written to the stored       *)
(* record as update_config writes one.                                     *)
TaskPrices == {20, 30}

set_task_price(p) ==
    /\ DispatcherFree
    /\ config' = update_config(config, [task_price |-> p], TRUE)
    /\ UNCHANGED <<users, tasks, wds, seen, conv, h, auto, tlog, wlog,
                   DEFAULT_CONFIG, cfg, sent, bonuses>>

(* A screen that shows values of the config: one call of get_config *)
show_config(ok) ==
    /\ DispatcherFree
    /\ LET got == get_config(ok)
       IN  /\ config' = got.record
           /\ cfg' = ConfigCalls("get", ok, TRUE, got.data, 1, "none")
    /\ UNCHANGED <<users, tasks, wds, seen, conv, h, auto, tlog, wlog,
                   DEFAULT_CONFIG, sent, bonuses>>

(* edit_text_save: the value typed is written under the key chosen on the  *)
(* screen before, and the admin is told Saved.                             *)
EditKeys == {"referral_bonus", "work_end_time"}

EditValue(key) == IF key = "referral_bonus" THEN 10 ELSE 1320

edit_text_save(key, ok) ==
    /\ DispatcherFree
    /\ config' = update_config(config, [k \in {key} |-> EditValue(key)], ok)
    /\ cfg' = ConfigCalls("edit", TRUE, ok, NoRecord, 0, "saved")
    /\ UNCHANGED <<users, tasks, wds, seen, conv, h, auto, tlog, wlog,
                   DEFAULT_CONFIG, sent, bonuses>>

(* add_app_limit, the last step of the add-app conversation: the app is    *)
(* appended to the monitored_apps list of the dict get_config returned,    *)
(* whatever the list holds, and the list is written back.                  *)
NewApps == {2}

add_app_limit(nid, limit, rok, wok) ==
    /\ DispatcherFree
    /\ LET got == get_config(rok)
           apps == Append(got.data.monitored_apps,
                          [id |-> nid, limit |-> limit])
       IN  /\ Len(got.data.monitored_apps) < MaxApps
           /\ DEFAULT_CONFIG' = InPlace(got, "monitored_apps", apps)
           /\ config' = update_config(got.record,
                                      [monitored_apps |-> apps], wok)
           /\ cfg' = ConfigCalls("add_app", rok, wok, got.data, 1, "added")
    /\ UNCHANGED <<users, tasks, wds, seen, conv, h, auto, tlog, wlog, sent,
                   bonuses>>

(* button_action_handler: the show flag of the button is flipped in the    *)
(* buttons dict of the dict get_config returned, the dict is written back  *)
(* and edit_buttons_menu reads the config again.                           *)
Buttons == {"submit"}

button_action_handler(key, rok, wok) ==
    /\ DispatcherFree
    /\ LET got == get_config(rok)
           buttons == [got.data.buttons EXCEPT ![key] = ~@]
       IN  /\ DEFAULT_CONFIG' = InPlace(got, "buttons", buttons)
           /\ config' = update_config(got.record, [buttons |-> buttons], wok)
           /\ cfg' = ConfigCalls("toggle", rok, wok, got.data, 2, "menu")
    /\ UNCHANGED <<users, tasks, wds, seen, conv, h, auto, tlog, wlog, sent,
                   bonuses>>

----------------------------------------------------------------------------
(* run_automation: the thread that polls the Play Store listings           *)

AutoReviews == PlayStore[auto.apps[auto.app].id]
AutoReviewNow == AutoReviews[auto.rev]

(* The next position of the two nested loops, after the current review *)
AutoAdvance ==
    IF auto.rev < Len(AutoReviews)
    THEN [auto EXCEPT !.pc = "review", !.rev = @ + 1, !.t = 0, !.price = 0]
    ELSE IF auto.app < Len(auto.apps)
    THEN [auto EXCEPT !.pc = "fetch", !.app = @ + 1, !.rev = 0, !.t = 0,
                      !.price = 0]
    ELSE AutoSleep(auto.skipped, auto.skipped # {})

AutoCycleStart ==
    /\ auto.pc = "sleep"
    /\ auto' = IF config.monitored_apps = <<>>
               THEN AutoIdle
               ELSE [AutoIdle EXCEPT !.pc = "fetch",
                                     !.apps = config.monitored_apps, !.app = 1]
    /\ UNCHANGED <<users, config, tasks, wds, seen, conv, h, tlog, wlog,
                   DEFAULT_CONFIG, cfg, sent, bonuses>>

AutoFetch ==
    /\ auto.pc = "fetch"
    /\ auto' = IF AutoReviews = <<>>
               THEN [AutoAdvance EXCEPT !.rev = 0]
               ELSE [auto EXCEPT !.pc = "review", !.rev = 1]
    /\ UNCHANGED <<users, config, tasks, wds, seen, conv, h, tlog, wlog,
                   DEFAULT_CONFIG, cfg, sent, bonuses>>

ReviewQualifies_FourUp(r) == r.score >= AutoApproveScore - 1

ReviewQualifies(r) == r.score = AutoApproveScore

AlreadySeen_Never(rid) == FALSE

(* seen_reviews.document(rid).get().exists *)
AlreadySeen(rid) == rid \in seen

MarkSeen_Forget(rid) == seen

(* seen_reviews.document(rid).set(...) *)
MarkSeen(rid) == seen \cup {rid}

(* One review of the listing: the age check, the seen_reviews lookup, the  *)
(* log message and the seen_reviews write. sent holds the ids of the       *)
(* reviews for which the log message was sent.                             *)
TooOld_Never(r) == FALSE

(* r['at'] < datetime.now() - timedelta(hours=48) *)
TooOld(r) == r.old

AutoReview ==
    /\ auto.pc = "review"
    /\ LET r == AutoReviewNow
       IN  IF TooOld(r) \/ AlreadySeen(r.reviewId)
           THEN /\ auto' = AutoAdvance
                /\ seen' = seen
                /\ sent' = sent
           ELSE /\ sent' = sent \cup {r.reviewId}
                /\ seen' = MarkSeen(r.reviewId)
                /\ auto' = IF ReviewQualifies(r)
                           THEN [auto EXCEPT !.pc = "scan"]
                           ELSE AutoAdvance
    /\ UNCHANGED <<users, config, tasks, wds, conv, h, tlog, wlog,
                   DEFAULT_CONFIG, cfg, bonuses>>

(* The pending tasks of the app, as the query returns them *)
PendingTasksOf(app_id) ==
    {t \in DOMAIN tasks : tasks[t].app_id = app_id /\ tasks[t].status = "pending"}

(* The scan stops at the first task whose name matches; the query returns  *)
(* tasks in document-id order, which is any order.                         *)
AutoScan ==
    /\ auto.pc = "scan"
    /\ LET matching == {t \in PendingTasksOf(auto.apps[auto.app].id) :
                           NameMatches(tasks[t].review_name, AutoReviewNow.userName)}
       IN  IF matching = {}
           THEN auto' = AutoAdvance
           ELSE \E t \in matching :
                   auto' = [auto EXCEPT !.pc = "a_status", !.t = t,
                                        !.price = ApprovalPrice(tasks[t])]
    /\ UNCHANGED <<users, config, tasks, wds, seen, conv, h, tlog, wlog,
                   DEFAULT_CONFIG, cfg, sent, bonuses>>

AutoWriteStatus ==
    /\ auto.pc = "a_status"
    /\ tasks' = [tasks EXCEPT ![auto.t].status = "approved",
                              ![auto.t].approved_at = TRUE]
    /\ tlog' = [tlog EXCEPT ![auto.t].writes = @ + 1,
                            ![auto.t].rids = Append(@, AutoReviewNow.reviewId)]
    /\ auto' = [auto EXCEPT !.pc = "a_credit"]
    /\ UNCHANGED <<users, config, wds, seen, conv, h, wlog, DEFAULT_CONFIG,
                   cfg, sent, bonuses>>

AutoCreditUser_NoCount(user_id, price) ==
    [users EXCEPT ![user_id].balance = FAdd(@, F(price))]

AutoCreditUser(user_id, price) ==
    [users EXCEPT ![user_id].balance = FAdd(@, F(price)),
                  ![user_id].total_tasks = @ + 1]

AutoAfterMatch_KeepScanning == [auto EXCEPT !.pc = "scan"]

(* break: the first match ends the loop over the pending tasks *)
AutoAfterMatch == AutoAdvance

AutoCredit ==
    /\ auto.pc = "a_credit"
    /\ users' = AutoCreditUser(tasks[auto.t].user_id, auto.price)
    /\ tlog' = [tlog EXCEPT ![auto.t].credits = @ + 1,
                            ![auto.t].tt = @ + 1,
                            ![auto.t].amount = @ + auto.price]
    /\ auto' = AutoAfterMatch
    /\ UNCHANGED <<config, tasks, wds, seen, conv, h, wlog, DEFAULT_CONFIG,
                   cfg, sent, bonuses>>

----------------------------------------------------------------------------
(* The handlers of the dispatcher thread, by screen *)
UserActions ==
    \E u \in Users, r \in Users \cup {NoRef} : start(u, r)

SubmitActions ==
    \/ \E u \in Submitters, now \in Times : start_task_submission(u, now)
    \/ \E u \in Submitters, a \in Apps : app_selected(u, a)
    \/ \E u \in Submitters, text \in NameTexts : get_review_name(u, text)
    \/ \E u \in Submitters : save_task(u)

(* The submission conversations of every user *)
AllSubmitActions ==
    \/ \E u \in Users, now \in Times : start_task_submission(u, now)
    \/ \E u \in Users, a \in Apps : app_selected(u, a)
    \/ \E u \in Users, text \in NameTexts : get_review_name(u, text)
    \/ \E u \in Users : save_task(u)

TaskActions ==
    \/ \E actor \in Users, action \in {"apr", "rej"}, t \in 1..MaxTasks :
          TaskRead(actor, action, t)
    \/ TaskWriteStatus
    \/ TaskCredit

WithdrawActions ==
    \/ \E u \in Withdrawers : withdraw_start(u)
    \/ \E u \in Withdrawers, text \in AmountTexts : WaRead(u, text)
    \/ WaWrite

WdActions ==
    \/ \E actor \in Users, action \in {"apr", "rej"}, w \in 1..MaxWds :
          WdRead(actor, action, w)
    \/ WdWriteStatus
    \/ WdRefund

BalanceActions ==
    \E u \in AdjustTargets, a \in BalActions, text \in AdjustTexts :
        user_balance_update(u, a, text)

ConfigActions ==
    \E p \in TaskPrices : set_task_price(p)

AppActions ==
    \E nid \in NewApps : add_app_limit(nid, AppLimit, TRUE, TRUE)

Automation ==
    \/ AutoCycleStart
    \/ AutoFetch
    \/ AutoReview
    \/ AutoScan
    \/ AutoWriteStatus
    \/ AutoCredit

(* The whole program: the dispatcher thread and the automation thread *)
Next ==
    \/ UserActions
    \/ SubmitActions
    \/ TaskActions
    \/ WithdrawActions
    \/ WdActions
    \/ BalanceActions
    \/ ConfigActions
    \/ AppActions
    \/ Finish
    \/ Automation

Spec == Init /\ [][Next]_vars

(* The task ledger: submission, manual resolution and the automation       *)
(* thread, which are the operations that read or write the tasks.          *)
TaskNext ==
    \/ UserActions
    \/ SubmitActions
    \/ TaskActions
    \/ ConfigActions
    \/ Finish
    \/ Automation

TaskSpec == Init /\ [][TaskNext]_vars

(* The task ledger with the admin's add-app screen: the automation thread *)
(* polls several listings.                                                 *)
AutoNext == TaskNext \/ AppActions

AutoSpec == Init /\ [][AutoNext]_vars

(* The submission conversations of all users, one handler after the other *)
SubmitNext ==
    \/ UserActions
    \/ AllSubmitActions

SubmitSpec == Init /\ [][SubmitNext]_vars

(* The submissions of all users next to the automation thread *)
MatchNext ==
    \/ \E u \in Users : start(u, NoRef)
    \/ AllSubmitActions
    \/ Automation

MatchSpec == Init /\ [][MatchNext]_vars

(* The withdrawal ledger: the operations that read or write withdrawals,   *)
(* with the admin balance screen as the source of balance.                 *)
WdNext ==
    \/ UserActions
    \/ WithdrawActions
    \/ WdActions
    \/ BalanceActions
    \/ Finish

WdSpec == Init /\ [][WdNext]_vars

(* The withdrawal ledger next to the automation thread, whose credits are  *)
(* the only writes of another thread that can fall between the store calls *)
(* of a withdrawal request.                                                *)
WdAutoNext ==
    \/ WdNext
    \/ SubmitActions
    \/ Automation

(* A handler that has started runs to its end, and the automation thread   *)
(* keeps running.                                                          *)
WdHandlerSteps ==
    \/ WaWrite
    \/ WdWriteStatus
    \/ WdRefund
    \/ Finish

WdAutoSpec ==
    Init /\ [][WdAutoNext]_vars /\ WF_vars(WdHandlerSteps) /\ WF_vars(Automation)

(* The dispatcher thread alone: handlers run one after the other and the   *)
(* automation thread takes no step.                                        *)
ManualNext ==
    \/ UserActions
    \/ SubmitActions
    \/ TaskActions
    \/ WithdrawActions
    \/ WdActions
    \/ BalanceActions
    \/ Finish

ManualSpec == Init /\ [][ManualNext]_vars

(* The dispatcher thread alone, with the screen that makes a user who has  *)
(* joined an admin and the one that takes the role away.                   *)
AdminActions ==
    \/ \E uid \in {u \in AdjustTargets : users[u].exists} : add_admin_save(uid)
    \/ \E uid \in AdjustTargets : rmv_admin_save(uid)

AdminNext ==
    \/ ManualNext
    \/ AdminActions

AdminSpec == Init /\ [][AdminNext]_vars

(* The ledger without overlap, failure or admin adjustment: a handler runs *)
(* from its first step to its last while the automation sleeps, and a      *)
(* cycle of the automation runs while no handler does. The stored          *)
(* task_price is the minimum withdrawal, so that one approved task can be  *)
(* withdrawn.                                                              *)
ConserveInit ==
    /\ InitLedger
    /\ config = [HardCodedDefaults EXCEPT
                    !.monitored_apps = <<[id |-> 1, limit |-> AppLimit]>>,
                    !.task_price = DefaultMinWithdraw]

ConserveNext ==
    \/ /\ auto.pc = "sleep"
       /\ \/ UserActions
          \/ SubmitActions
          \/ TaskActions
          \/ WithdrawActions
          \/ WdActions
          \/ Finish
    \/ /\ h.pc = "idle"
       /\ Automation

ConserveSpec == ConserveInit /\ [][ConserveNext]_vars

(* The dispatcher thread with the admin screen that blocks and unblocks a  *)
(* user: the user's /start, submissions and withdrawal requests.           *)
BlockActions ==
    \E uid \in AdjustTargets : u_toggle_block(uid)

BlockNext ==
    \/ \E u \in Submitters : start(u, NoRef)
    \/ SubmitActions
    \/ WithdrawActions
    \/ BalanceActions
    \/ BlockActions
    \/ Finish

BlockSpec == Init /\ [][BlockNext]_vars

(* The users: /start with and without a referrer, also when the store      *)
(* fails to answer get_user, and the admin balance screen.                 *)
ReferralNext ==
    \/ UserActions
    \/ \E u \in Users, r \in Users \cup {NoRef} : StartGetUserFails(u, r)
    \/ BalanceActions

ReferralSpec == Init /\ [][ReferralNext]_vars

----------------------------------------------------------------------------
(* Store failures: a Firestore write raises instead of taking effect. In a *)
(* handler the exception ends the handler (the dispatcher logs it).        *)

Failed == Reply(h.op, h.actor, h.id, h.action, "error")

TaskWriteStatusFails ==
    /\ h.pc = "t_status"
    /\ h' = Failed
    /\ UNCHANGED <<users, config, tasks, wds, seen, conv, auto, tlog, wlog,
                   DEFAULT_CONFIG, cfg, sent, bonuses>>

TaskCreditFails ==
    /\ h.pc = "t_credit"
    /\ h' = Failed
    /\ UNCHANGED <<users, config, tasks, wds, seen, conv, auto, tlog, wlog,
                   DEFAULT_CONFIG, cfg, sent, bonuses>>

WdWriteStatusFails ==
    /\ h.pc = "wd_status"
    /\ h' = Failed
    /\ UNCHANGED <<users, config, tasks, wds, seen, conv, auto, tlog, wlog,
                   DEFAULT_CONFIG, cfg, sent, bonuses>>

WdRefundFails ==
    /\ h.pc = "wd_refund"
    /\ h' = Failed
    /\ UNCHANGED <<users, config, tasks, wds, seen, conv, auto, tlog, wlog,
                   DEFAULT_CONFIG, cfg, sent, bonuses>>

HandlerFaults ==
    \/ TaskWriteStatusFails
    \/ TaskCreditFails
    \/ WdWriteStatusFails
    \/ WdRefundFails

(* The dispatcher thread with store failures *)
FaultNext == ManualNext \/ HandlerFaults

FaultSpec == Init /\ [][FaultNext]_vars

(* withdraw_amount keeps its two writes in one try block whose except      *)
(* clause logs the error and answers the user. When the debit raises,      *)
(* nothing was written. When the add of the record raises, the debit has   *)
(* been applied, and the except clause writes nothing.                     *)
WaDebitFails ==
    /\ h.pc = "wa_write"
    /\ h' = [Failed EXCEPT !.amount = h.amount]
    /\ UNCHANGED <<users, config, tasks, wds, seen, conv, auto, tlog, wlog,
                   DEFAULT_CONFIG, cfg, sent, bonuses>>

WaAddFails ==
    /\ h.pc = "wa_write"
    /\ users' = Debit(h.actor, h.amount)
    /\ h' = [Failed EXCEPT !.amount = h.amount]
    /\ UNCHANGED <<config, tasks, wds, seen, conv, auto, tlog, wlog,
                   DEFAULT_CONFIG, cfg, sent, bonuses>>

WithdrawFaults ==
    \/ WaDebitFails
    \/ WaAddFails

(* The withdrawal ledger with store failures in withdraw_amount *)
WdFaultNext == WdNext \/ WithdrawFaults

WdFaultSpec == Init /\ [][WdFaultNext]_vars

(* In run_automation an exception of the fetch or of a store call is       *)
(* caught by the except clause inside the loop over the apps, which passes *)
(* on to the next app of the list.                                         *)
AutoNextApp_AbortCycle == AutoSleep(auto.skipped \cup {auto.app}, TRUE)

AutoNextApp ==
    IF auto.app < Len(auto.apps)
    THEN [auto EXCEPT !.pc = "fetch", !.app = @ + 1, !.rev = 0, !.t = 0,
                      !.price = 0, !.skipped = @ \cup {auto.app}]
    ELSE AutoSleep(auto.skipped \cup {auto.app}, TRUE)

AutoAppFails ==
    /\ auto.pc \in {"fetch", "review", "scan", "a_status", "a_credit"}
    /\ auto' = AutoNextApp
    /\ UNCHANGED <<users, config, tasks, wds, seen, conv, h, tlog, wlog,
                   DEFAULT_CONFIG, cfg, sent, bonuses>>

(* get_config fails to read the store: it returns DEFAULT_CONFIG, whose    *)
(* monitored_apps is empty, and the cycle ends at the sleep.               *)
AutoConfigFails ==
    /\ auto.pc = "sleep"
    /\ auto' = AutoSleep({}, TRUE)
    /\ UNCHANGED <<users, config, tasks, wds, seen, conv, h, tlog, wlog,
                   DEFAULT_CONFIG, cfg, sent, bonuses>>

(* The process is stopped and started again: the store is kept, the        *)
(* handler in progress, the conversations and the position of the          *)
(* automation thread are lost.                                             *)
Restart ==
    /\ h' = Idle
    /\ conv' = [u \in Users |-> NoConv]
    /\ auto' = AutoIdle
    /\ DEFAULT_CONFIG' = HardCodedDefaults
    /\ cfg' = NoCalls
    /\ UNCHANGED <<users, config, tasks, wds, seen, tlog, wlog, sent, bonuses>>

AutoFaults ==
    \/ AutoAppFails
    \/ AutoConfigFails
    \/ Restart

(* Task submission and the automation thread, with its failures *)
AutoFaultNext ==
    \/ UserActions
    \/ SubmitActions
    \/ AppActions
    \/ Automation
    \/ AutoFaults

AutoFaultSpec == Init /\ [][AutoFaultNext]_vars

(* The automation thread keeps running: time.sleep returns and every call  *)
(* of a cycle returns or raises. No operator acts.                         *)
AutoLiveNext ==
    \/ UserActions
    \/ SubmitActions
    \/ Automation
    \/ AutoConfigFails

AutoLiveSpec == Init /\ [][AutoLiveNext]_vars /\ WF_vars(Automation)

(* The config store: the screens that read and write the config, with the  *)
(* failures of the store and the restart of the process. The users joined  *)
(* earlier, and the stored record is absent, or was written before some of *)
(* the keys of DEFAULT_CONFIG were added, or holds every key.              *)
StoredRecords ==
    {NoRecord,
     [task_price |-> 30],
     [task_price |-> 30, monitored_apps |-> <<[id |-> 1, limit |-> AppLimit]>>],
     [HardCodedDefaults EXCEPT !.task_price = 30]}

ConfigInit ==
    /\ InitLedger
    /\ config \in StoredRecords

ConfigScreens ==
    \/ \E ok \in BOOLEAN : show_config(ok)
    \/ \E key \in EditKeys, ok \in BOOLEAN : edit_text_save(key, ok)
    \/ \E nid \in NewApps, rok \in BOOLEAN, wok \in BOOLEAN :
          add_app_limit(nid, AppLimit, rok, wok)
    \/ \E key \in Buttons, rok \in BOOLEAN, wok \in BOOLEAN :
          button_action_handler(key, rok, wok)

ConfigNext ==
    \/ \E u \in Submitters : start(u, NoRef)
    \/ \E u \in Submitters, now \in Times : start_task_submission(u, now)
    \/ ConfigScreens
    \/ Restart

ConfigSpec == ConfigInit /\ [][ConfigNext]_vars

----------------------------------------------------------------------------
(* Properties *)

(* No resolution of task t, or of withdrawal w, is between its read and    *)
(* its last write.                                                         *)
TaskSettled(t) ==
    /\ ~(h.pc \in {"t_status", "t_credit"} /\ h.id = t)
    /\ ~(auto.pc \in {"a_status", "a_credit"} /\ auto.t = t)

WdSettled(w) == ~(h.pc \in {"wd_status", "wd_refund"} /\ h.id = w)

ManualStep == h' # h
AutoStep == auto' # auto

(* C1: for every task, under every interleaving of manual approve / reject *)
(* calls and the automation's approval, the owner is credited the price at *)
(* most once and total_tasks is incremented at most once; once the         *)
(* resolutions are over, exactly once if the task is approved and not at   *)
(* all if it is rejected.                                                  *)
C1_CreditedAtMostOnce ==
    \A t \in DOMAIN tasks :
        /\ tlog[t].credits <= 1
        /\ tlog[t].tt <= 1
        /\ TaskSettled(t) =>
              /\ tasks[t].status = "approved" => tlog[t].credits = 1
              /\ tasks[t].status = "rejected" => tlog[t].credits = 0

(* C2: for every withdrawal, under every interleaving of approve / reject  *)
(* attempts, exactly one pending-to-terminal transition is recorded, and   *)
(* the amount is refunded exactly once if the final status is rejected and *)
(* never if it is approved.                                                *)
C2_WithdrawalResolvedOnce ==
    \A w \in DOMAIN wds :
        /\ wlog[w].writes <= 1
        /\ wlog[w].refunds <= 1
        /\ (wds[w].status # "pending") <=> (wlog[w].writes = 1)
        /\ wds[w].status = "approved" => wlog[w].refunds = 0
        /\ (WdSettled(w) /\ wds[w].status = "rejected") => wlog[w].refunds = 1
        /\ wds[w].status = "pending" => wlog[w].refunds = 0

(* A second attempt on a rejected and refunded withdrawal has just been    *)
(* turned away.                                                            *)
C2_Witness ==
    /\ h.pc = "reply"
    /\ h.op = "handle_withdrawal_action"
    /\ h.result = "already"
    /\ wds[h.id].status = "rejected"
    /\ wlog[h.id].refunds = 1
    /\ wlog[h.id].writes = 1

(* C3: once a task is approved or rejected, no step of any actor changes   *)
(* its status again.                                                       *)
C3_TerminalIsFinal ==
    [][\A t \in DOMAIN tasks :
          tasks[t].status # "pending" => tasks'[t].status = tasks[t].status]_vars

(* C4: status and ledger change together, also when a store write fails    *)
(* partway: a task is approved if and only if its price has been credited  *)
(* to its owner, and a withdrawal is rejected if and only if its amount    *)
(* has been refunded. Stated at the states where no resolution of the      *)
(* record is in progress.                                                  *)
C4_StatusMatchesLedger ==
    /\ \A t \in DOMAIN tasks :
          TaskSettled(t) =>
              ((tasks[t].status = "approved") <=> (tlog[t].credits >= 1))
    /\ \A w \in DOMAIN wds :
          WdSettled(w) =>
              ((wds[w].status = "rejected") <=> (wlog[w].refunds >= 1))

(* C5: a manual approve or reject on a task or withdrawal whose status is  *)
(* read as not pending is a no-op: the handler answers "already processed" *)
(* and no record, balance or total_tasks counter changes, up to the        *)
(* handler's end.                                                          *)
C5_NonPendingIsNoOp ==
    [][/\ (/\ h.pc = "idle" /\ h'.op = "handle_task_action"
           /\ is_admin(h'.actor)
           /\ tasks[h'.id].status # "pending")
          => (/\ h'.pc = "reply" /\ h'.result = "already"
              /\ UNCHANGED <<users, tasks, wds, tlog, wlog>>)
       /\ (/\ h.pc = "idle" /\ h'.op = "handle_withdrawal_action"
           /\ is_admin(h'.actor)
           /\ wds[h'.id].status # "pending")
          => (/\ h'.pc = "reply" /\ h'.result = "already"
              /\ UNCHANGED <<users, tasks, wds, tlog, wlog>>)
       /\ (h.pc = "reply" /\ h.result = "already" /\ ManualStep)
          => (h'.pc = "idle" /\ UNCHANGED <<users, tasks, wds, tlog, wlog>>)
      ]_vars

(* An approve or reject on an already approved and credited task has just  *)
(* been answered "already processed".                                      *)
C5_Witness ==
    /\ h.pc = "reply"
    /\ h.op = "handle_task_action"
    /\ h.result = "already"
    /\ tasks[h.id].status = "approved"
    /\ tlog[h.id].credits = 1
    /\ \E w \in DOMAIN wds : wds[w].status # "pending"

(* C6: the approval of a pending task, by hand or by the automation, sets  *)
(* the status to approved with approved_at, adds exactly the stored price  *)
(* to the owner's balance and exactly 1 to the owner's total_tasks.        *)
C6_ApprovalEffect ==
    [][/\ (h.pc = "t_status" /\ h.action = "apr" /\ ManualStep)
          => (/\ tasks'[h.id].status = "approved"
              /\ tasks'[h.id].approved_at
              /\ h'.pc = "t_credit")
       /\ (h.pc = "t_credit" /\ ManualStep)
          => LET o == tasks[h.id].user_id
             IN  /\ users'[o].balance =
                        FAdd(users[o].balance, F(tasks[h.id].price))
                 /\ users'[o].total_tasks = users[o].total_tasks + 1
       /\ (auto.pc = "a_status" /\ AutoStep)
          => (/\ tasks'[auto.t].status = "approved"
              /\ tasks'[auto.t].approved_at
              /\ auto'.pc = "a_credit")
       /\ (auto.pc = "a_credit" /\ AutoStep)
          => LET o == tasks[auto.t].user_id
             IN  /\ users'[o].balance =
                        FAdd(users[o].balance, F(tasks[auto.t].price))
                 /\ users'[o].total_tasks = users[o].total_tasks + 1
      ]_vars

(* A task approved once, whose owner holds exactly its price *)
C6_Witness ==
    \E t \in DOMAIN tasks :
        /\ tasks[t].status = "approved" /\ tasks[t].approved_at
        /\ tlog[t].credits = 1
        /\ users[tasks[t].user_id].balance = F(tasks[t].price)
        /\ users[tasks[t].user_id].total_tasks = 1

(* The step that credits the owner of a task *)
CreditStepOf(t) ==
    \/ h.pc = "t_credit" /\ h.id = t /\ ManualStep
    \/ auto.pc = "a_credit" /\ auto.t = t /\ AutoStep

C8_RejectFrame ==
    [][/\ (h.pc = "t_status" /\ h.action = "rej" /\ ManualStep)
          => (/\ tasks' = [tasks EXCEPT ![h.id].status = "rejected",
                                        ![h.id].processed_by = h.actor]
              /\ h'.pc = "reply")
       /\ (h.op = "handle_task_action" /\ h.action = "rej" /\ ManualStep)
          => UNCHANGED <<users, wds>>
       /\ (h'.op = "handle_task_action" /\ h'.action = "rej" /\ ManualStep)
          => UNCHANGED <<users, wds>>
      ]_vars

(* A pending task has been rejected by hand and nothing was credited *)
C8_Witness ==
    /\ h.pc = "reply" /\ h.op = "handle_task_action" /\ h.action = "rej"
    /\ h.result = "ok"
    /\ tasks[h.id].status = "rejected"
    /\ tlog[h.id].credits = 0
    /\ users[tasks[h.id].user_id].balance = F(0)

(* C9: a task's price is the task_price of the config when the task is     *)
(* created, no later step changes it, and what an approval credits, by     *)
(* hand or by the automation, is that stored price.                        *)
C9_PriceSnapshot ==
    /\ [](\A t \in DOMAIN tasks : tlog[t].amount = tlog[t].credits * tasks[t].price)
    /\ [][/\ \A t \in DOMAIN tasks : tasks'[t].price = tasks[t].price
          /\ Len(tasks') > Len(tasks)
             => tasks'[Len(tasks')].price = config.task_price
         ]_vars

(* A task was approved and credited after task_price was changed *)
C9_Witness ==
    \E t \in DOMAIN tasks :
        /\ tasks[t].price # config.task_price
        /\ tasks[t].status = "approved"
        /\ tlog[t].credits = 1
        /\ tlog[t].amount = tasks[t].price
        /\ users[tasks[t].user_id].balance = F(tasks[t].price)

(* C10: a withdrawal record is created only if amount >= min_withdraw and  *)
(* amount <= the balance the request read; when a check fails, no record   *)
(* is created and the balance is unchanged.                                *)
C10_WithdrawalGuard ==
    [][/\ Len(wds') > Len(wds)
          => LET w == wds'[Len(wds')]
             IN  /\ FGe(w.amount, F(config.min_withdraw))
                 /\ FLe(w.amount, users[w.user_id].balance)
       /\ (/\ h.pc = "idle" /\ h'.op = "withdraw_amount"
           /\ h'.result \in {"below_min", "insufficient"})
          => (h'.pc = "reply" /\ UNCHANGED <<users, wds>>)
       /\ (/\ h.op = "withdraw_amount" /\ h.pc = "reply" /\ h.result # "ok"
           /\ ManualStep)
          => UNCHANGED <<users, wds>>
      ]_vars

(* C11: a successful withdrawal request of amount a by a user with balance *)
(* b leaves the balance at exactly b - a and creates exactly one           *)
(* withdrawal record, pending and of amount a, at request time; nothing    *)
(* else of any user changes, and no other step creates a record.           *)
C11_EscrowDebit ==
    [][/\ (h.pc = "wa_write" /\ ManualStep)
          => LET u == h.actor
                 a == h.amount
                 b == users[u].balance
             IN  /\ users' = [users EXCEPT ![u].balance = FAdd(b, FNeg(a))]
                 /\ wds' = Append(wds, [user_id |-> u, amount |-> a,
                                        status |-> "pending",
                                        processed_by |-> 0])
                 /\ h'.pc = "reply" /\ h'.result = "ok"
       /\ h.pc # "wa_write" => Len(wds') = Len(wds)
       /\ (h.op = "withdraw_amount" /\ h.pc = "reply" /\ ManualStep)
          => UNCHANGED <<users, wds>>
      ]_vars

(* A request of 50 on a balance of 100 has just succeeded *)
C11_Witness ==
    /\ h.pc = "reply" /\ h.op = "withdraw_amount" /\ h.result = "ok"
    /\ h.amount = F(50)
    /\ wlog[h.id].before = F(100)
    /\ users[h.actor].balance = F(50)
    /\ wds[h.id].status = "pending" /\ wds[h.id].amount = F(50)

(* C12: rejecting a pending withdrawal re-credits exactly its amount to    *)
(* its owner, so that a request followed by a rejection returns the        *)
(* owner's balance to its value before the request; approving it changes   *)
(* no balance.                                                             *)
C12_RejectRestoresBalance ==
    [][/\ (h.pc = "wd_refund" /\ ManualStep)
          => LET w == h.id
                 o == wds[w].user_id
             IN  /\ users' = [users EXCEPT ![o].balance =
                                  FAdd(@, wds[w].amount)]
                 /\ users[o].balance =
                        FAdd(wlog[w].before, FNeg(wds[w].amount))
                    => users'[o].balance = wlog[w].before
       /\ (h.op = "handle_withdrawal_action" /\ h.action = "apr" /\ ManualStep)
          => users' = users
       /\ (h'.op = "handle_withdrawal_action" /\ h'.action = "apr" /\ ManualStep)
          => users' = users
      ]_vars

(* C13: between the operations of the dispatcher (no handler in progress, *)
(* no other thread), the balance of every user is >= 0.                    *)
C13_BalanceNonNegative ==
    h.pc = "idle" =>
        \A u \in Users : users[u].exists => FGe(users[u].balance, F(0))

(* A withdrawal request has just succeeded and left the balance negative *)
C14_OverDebit ==
    /\ h.op = "withdraw_amount" /\ h.pc = "reply" /\ h.result = "ok"
    /\ FLt(users[h.actor].balance, F(0))

----------------------------------------------------------------------------
(* The reviews of a listing that are within the 48 hours, and those among  *)
(* them that can approve task t.                                           *)
FreshIds(app_id) ==
    {PlayStore[app_id][j].reviewId : j \in
        {k \in DOMAIN PlayStore[app_id] : ~PlayStore[app_id][k].old}}

AllFreshSeen(apps, seenIds) ==
    \A i \in DOMAIN apps : FreshIds(apps[i].id) \subseteq seenIds

HasMatchingReview(t) ==
    \E j \in DOMAIN PlayStore[tasks[t].app_id] :
        LET r == PlayStore[tasks[t].app_id][j]
        IN  /\ ~r.old
            /\ r.score = AutoApproveScore
            /\ Strip(Lower(tasks[t].review_name)) = Strip(Lower(r.userName))

(* The number of approvals the automation wrote on review rid *)
ApprovalsBy(rid) ==
    Cardinality({p \in UNION {{<<t, i>> : i \in DOMAIN tlog[t].rids} :
                                  t \in DOMAIN tlog} :
                    tlog[p[1]].rids[p[2]] = rid})

(* C15: a cycle over a review set that an earlier cycle has gone through   *)
(* approves or rejects nothing and changes no balance. A completed cycle   *)
(* leaves every review it went through in the persisted seen set, the seen *)
(* set never loses an id, a seen review is skipped without any write, and  *)
(* a cycle that finds all its reviews seen never reaches the task scan.    *)
C15_SecondCycleIdle ==
    [][/\ seen \subseteq seen'
       /\ (AutoStep /\ auto.pc = "review" /\ AutoReviewNow.reviewId \in seen)
          => (auto' = AutoAdvance /\ UNCHANGED <<tasks, users, seen, tlog>>)
       /\ (AutoStep /\ auto.pc # "sleep" /\ auto'.pc = "sleep")
          => AllFreshSeen(auto.apps, seen')
       /\ (/\ AutoStep /\ auto.pc \in {"fetch", "review"}
           /\ AllFreshSeen(auto.apps, seen))
          => (/\ auto'.pc \in {"fetch", "review", "sleep"}
              /\ UNCHANGED <<tasks, users, seen, tlog>>)
      ]_vars

(* A later cycle is at the review on which an earlier cycle approved a     *)
(* task, and every review of the cycle's apps is seen.                     *)
C15_Witness ==
    /\ auto.pc = "review"
    /\ ~AutoReviewNow.old /\ AutoReviewNow.score = AutoApproveScore
    /\ AutoReviewNow.reviewId \in seen
    /\ AllFreshSeen(auto.apps, seen)
    /\ \E t \in DOMAIN tasks :
          /\ tlog[t].rids = <<AutoReviewNow.reviewId>>
          /\ tlog[t].credits = 1
          /\ tasks[t].status = "approved"

(* C16: the review id is in the persisted seen set before the worker      *)
(* scans or approves any task for the review, the seen set never loses an  *)
(* id and only an unseen review reaches the scan, so that, whatever        *)
(* failure or restart follows, a review id is behind at most one approval. *)
C16_SeenBeforeMatching ==
    /\ [](/\ (auto.pc \in {"scan", "a_status", "a_credit"}
               => AutoReviewNow.reviewId \in seen)
           /\ \A app_id \in Apps : \A j \in DOMAIN PlayStore[app_id] :
                 ApprovalsBy(PlayStore[app_id][j].reviewId) <= 1)
    /\ [][ /\ seen \subseteq seen'
           /\ (auto'.pc = "scan" /\ auto.pc # "scan")
              => (/\ auto.pc = "review"
                  /\ AutoReviewNow.reviewId \notin seen
                  /\ AutoReviewNow.reviewId \in seen'
                  /\ auto'.rev = auto.rev /\ auto'.app = auto.app)
          ]_vars

(* The processing of app 1 raised after review 1 was marked seen and       *)
(* before review 2 was looked at, and a task that review 1 matches is      *)
(* still pending and untouched.                                            *)
C16_Witness ==
    /\ auto.skipped = {1}
    /\ 1 \in seen /\ 2 \notin seen
    /\ \E t \in DOMAIN tasks :
          /\ tasks[t].status = "pending" /\ tasks[t].app_id = 1
          /\ Strip(Lower(tasks[t].review_name)) =
                 Strip(Lower(PlayStore[1][1].userName))
          /\ tlog[t].writes = 0

(* C17: the automation approves a task only on a review of score exactly   *)
(* 5, of the app the task was submitted for, whose userName equals the     *)
(* task's review_name after lower-casing and trimming both, and only a     *)
(* task it read as pending; its only writes are that approval and its      *)
(* credit, and a review of a lower score leads to no write.                *)
C17_AutoApproveGuard ==
    /\ [](auto.pc \in {"a_status", "a_credit"}
           => LET r == AutoReviewNow
                  td == tasks[auto.t]
              IN  /\ r.score = 5
                  /\ td.app_id = auto.apps[auto.app].id
                  /\ Strip(Lower(td.review_name)) = Strip(Lower(r.userName)))
    /\ [][ /\ (AutoStep /\ auto'.pc = "a_status")
              => (auto.pc = "scan" /\ tasks[auto'.t].status = "pending")
           /\ (AutoStep /\ (tasks' # tasks \/ users' # users))
              => auto.pc \in {"a_status", "a_credit"}
           /\ (AutoStep /\ tasks' # tasks)
              => tasks' = [tasks EXCEPT ![auto.t].status = "approved",
                                        ![auto.t].approved_at = TRUE]
           /\ (AutoStep /\ auto.pc = "review" /\ AutoReviewNow.score < 5)
              => (auto'.pc # "scan" /\ UNCHANGED <<tasks, users, tlog>>)
          ]_vars

(* The automation has approved a task of app 2 on that app's 5-star        *)
(* review, whose name differs from the task's by case and blanks, after    *)
(* the 4-star review of the same name in app 1 was seen without effect.    *)
C17_Witness ==
    /\ auto.pc = "a_credit"
    /\ auto.apps[auto.app].id = 2
    /\ tasks[auto.t].app_id = 2
    /\ tasks[auto.t].review_name = <<"b">>
    /\ AutoReviewNow.userName = <<" ", "B">>
    /\ tasks[auto.t].status = "approved"
    /\ 2 \in seen
    /\ tlog[auto.t].writes = 1

(* C18: every task that stays pending with no matching review is           *)
(* eventually rejected by the automation, when the automation keeps        *)
(* running and no operator acts.                                           *)
C18_StalePendingExpires ==
    \A t \in 1..MaxTasks :
        (t \in DOMAIN tasks /\ tasks[t].status = "pending"
            /\ ~HasMatchingReview(t))
        ~> (t \in DOMAIN tasks /\ tasks[t].status = "rejected")

(* C19: within a cycle, a failure while fetching or processing one app     *)
(* passes on to the fetch of the next app of the same list, with no write, *)
(* and at the end of a cycle with failures every review of the apps that   *)
(* did not fail has been gone through.                                     *)
C19_AppFailureIsolated ==
    [][/\ (auto.pc # "sleep" /\ auto.app \in auto'.skipped \ auto.skipped)
          => /\ UNCHANGED <<tasks, users, seen, tlog>>
             /\ IF auto.app < Len(auto.apps)
                THEN /\ auto'.pc = "fetch"
                     /\ auto'.app = auto.app + 1
                     /\ auto'.apps = auto.apps
                ELSE auto'.pc = "sleep"
       /\ (auto.pc # "sleep" /\ auto'.pc = "sleep" /\ auto'.skipped # {})
          => \A i \in DOMAIN auto.apps \ auto'.skipped :
                FreshIds(auto.apps[i].id) \subseteq seen'
      ]_vars

(* The processing of app 1 raised, and in the same cycle the review of     *)
(* app 2 has approved a task of app 2.                                     *)
C19_Witness ==
    /\ auto.skipped = {1}
    /\ auto.pc = "a_credit"
    /\ auto.app = 2
    /\ tasks[auto.t].app_id = 2
    /\ tasks[auto.t].status = "approved"
    /\ 4 \in seen /\ 1 \notin seen

(* C20: the loop never ends, a new cycle starts again and again, also      *)
(* after a cycle that met an exception, and after such a cycle the sleep   *)
(* is shorter than the normal interval.                                    *)
C20_LoopRetriesWithBackoff ==
    /\ []<>(auto.pc = "fetch")
    /\ []((auto.pc = "sleep" /\ auto.err) => auto.wait < SleepSeconds)

----------------------------------------------------------------------------
(* The window [workStart, workEnd) at time now, wrapping past midnight     *)
(* when workStart > workEnd.                                               *)
C28_Window(now) ==
    LET workStart == config.work_start_time
        workEnd == config.work_end_time
    IN  IF workStart < workEnd
        THEN workStart <= now /\ now < workEnd
        ELSE now >= workStart \/ now < workEnd

(* C28: the working-hours check admits a submission at time t exactly when *)
(* t is in [workStart, workEnd), the window wrapping past midnight when    *)
(* workStart > workEnd; t = workEnd is outside.                            *)
C28_WorkWindowHalfOpen ==
    [][\A u \in Users, now \in Times :
          (/\ start_task_submission(u, now)
           /\ config.work_start_time # config.work_end_time
           /\ config.monitored_apps # <<>>)
          => (conv'[u].st = "T_APP_SELECT" <=> C28_Window(now))]_vars

(* C29: a task for an app is created only if the app's pending or approved *)
(* tasks are fewer than its limit at that moment, and so the number of     *)
(* pending or approved tasks of an app never exceeds the app's limit,      *)
(* however the submission conversations of the users interleave.           *)
C29_LimitRespected ==
    /\ [](\A i \in DOMAIN config.monitored_apps :
             get_app_task_count(config.monitored_apps[i].id)
                <= config.monitored_apps[i].limit)
    /\ [][Len(tasks') > Len(tasks)
           => \A i \in AppLookup(tasks'[Len(tasks')].app_id) :
                 get_app_task_count(config.monitored_apps[i].id)
                    < config.monitored_apps[i].limit]_vars

(* C30: a task carries autoApproved = true if and only if the automation   *)
(* approved it.                                                            *)
C30_AutoApprovedFlag ==
    \A t \in DOMAIN tasks :
        (tasks[t].status = "approved" /\ tlog[t].rids # <<>>)
        <=> ("autoApproved" \in DOMAIN tasks[t] /\ tasks[t].autoApproved)

----------------------------------------------------------------------------
(* C21: get_config on a stored record that lacks keys of the default       *)
(* config returns a dict with every default key, holding the stored value  *)
(* of the keys the record has and the hard-coded default of the others.    *)
C21_MergeDefaults ==
    (cfg.op = "get" /\ cfg.rok /\ doc_exists(cfg.before))
    => /\ DOMAIN HardCodedDefaults \subseteq DOMAIN cfg.ret
       /\ \A key \in DOMAIN cfg.before : cfg.ret[key] = cfg.before[key]
       /\ \A key \in DOMAIN HardCodedDefaults \ DOMAIN cfg.before :
              cfg.ret[key] = HardCodedDefaults[key]

(* What a get_config that reaches the store returns *)
C22_NextGet == get_config(TRUE).data

(* C22: after an update_config that succeeded, the very next get_config    *)
(* returns the new value of every field the update named and the stored    *)
(* value, as it was before the update, of every other stored field; a      *)
(* get_config that reaches the store returns the stored value of every     *)
(* stored field.                                                           *)
C22_UpdateThenGet ==
    /\ [](\A key \in DOMAIN config : C22_NextGet[key] = config[key])
    /\ [][\A key \in EditKeys :
             edit_text_save(key, TRUE)
             => /\ C22_NextGet'[key] = EditValue(key)
                /\ \A other \in DOMAIN config \ {key} :
                       C22_NextGet'[other] = config[other]]_vars
    /\ [][\A nid \in NewApps, rok \in BOOLEAN :
             add_app_limit(nid, AppLimit, rok, TRUE)
             => /\ C22_NextGet'.monitored_apps # <<>>
                /\ C22_NextGet'.monitored_apps[
                       Len(C22_NextGet'.monitored_apps)].id = nid
                /\ \A other \in DOMAIN get_config(rok).record
                                    \ {"monitored_apps"} :
                       C22_NextGet'[other] = get_config(rok).record[other]]_vars

(* A get_config has returned the referral bonus that edit_text_save wrote  *)
(* and the task price that the record held before that write.              *)
C22_Witness ==
    /\ cfg.op = "get"
    /\ cfg.rok
    /\ DOMAIN cfg.before = {"task_price", "referral_bonus"}
    /\ cfg.ret.referral_bonus = EditValue("referral_bonus")
    /\ cfg.ret.task_price # DefaultTaskPrice

(* C23: when the store is unreachable, get_config returns the last dict it *)
(* fetched, and the hard-coded defaults only if it never fetched one.      *)
(* Stated for the runs of the process in which DEFAULT_CONFIG still holds  *)
(* what the source writes.                                                 *)
C23_LastGoodOnFailure ==
    (cfg.op = "get" /\ ~cfg.rok /\ DEFAULT_CONFIG = HardCodedDefaults)
    => IF doc_exists(cfg.good)
       THEN cfg.ret = cfg.good
       ELSE cfg.ret = HardCodedDefaults

(* C24: when the write of update_config fails, the caller does not report  *)
(* success, and the stored record is unchanged.                            *)
C24_FailureSurfaced ==
    (cfg.op = "edit" /\ ~cfg.wok)
    => (cfg.said # "saved" /\ DOMAIN config = DOMAIN cfg.before)

(* C25: the calls of get_config that one handler makes, with no update     *)
(* between them and within any TTL, read the stored record at most once.   *)
C25_OneReadPerWindow ==
    cfg.op = "submit" => cfg.reads <= 1

(* C26: a get_config on a store without a config record writes the         *)
(* hard-coded defaults to the store and returns them; a get_config on a    *)
(* store that has a record leaves the record as it is.                     *)
C26_SeedsOnlyWhenEmpty ==
    [][show_config(TRUE)
          => IF doc_exists(config)
             THEN config' = config
             ELSE (config' = HardCodedDefaults
                   /\ cfg'.ret = HardCodedDefaults)]_vars

(* C27: no handler that reads the config changes DEFAULT_CONFIG, and what  *)
(* get_config returns changes only through a write of update_config that   *)
(* succeeded.                                                              *)
C27_DefaultsImmutable ==
    /\ [](DEFAULT_CONFIG = HardCodedDefaults)
    /\ [][(cfg'.op \in {"get", "submit"} \/ ~cfg'.wok)
             => C22_NextGet' = C22_NextGet]_vars

----------------------------------------------------------------------------
(* The ids of the reviews of all listings *)
ReviewIds ==
    UNION {{PlayStore[a][j].reviewId : j \in DOMAIN PlayStore[a]} : a \in Apps}

(* C31: one review approves at most one task. The automation's approval    *)
(* writes the status of the one task it matched and credits that task's    *)
(* owner, every other task and every other user are left as they are, and  *)
(* after the credit the automation passes on to the next review, so that   *)
(* no review id is behind two approvals.                                   *)
C31_OneTaskPerReview ==
    /\ [](\A rid \in ReviewIds : ApprovalsBy(rid) <= 1)
    /\ [][AutoWriteStatus
            => \A t \in DOMAIN tasks \ {auto.t} : tasks'[t] = tasks[t]]_vars
    /\ [][AutoCredit
            => /\ auto' = AutoAdvance
               /\ tasks' = tasks
               /\ \A u \in Users \ {tasks[auto.t].user_id} :
                      users'[u] = users[u]]_vars

(* Two tasks of app 1 carry the name of review 1; the cycle that went      *)
(* through the review is over, one of them is approved on it and credited, *)
(* the other is pending, untouched, and its owner holds nothing.           *)
C31_Witness ==
    /\ Len(tasks) = 2
    /\ auto.pc = "sleep"
    /\ 1 \in seen
    /\ \A t \in DOMAIN tasks :
          tasks[t].app_id = 1 /\ NameMatches(tasks[t].review_name, <<"a", " ">>)
    /\ \E t \in DOMAIN tasks, o \in DOMAIN tasks :
          /\ tasks[t].status = "approved"
          /\ tlog[t].rids = <<1>>
          /\ tlog[t].credits = 1
          /\ tasks[o].status = "pending"
          /\ tlog[o].writes = 0
          /\ users[tasks[o].user_id].balance = F(0)

(* The automation is between the seen mark of review rid and the end of    *)
(* the matching step for it.                                               *)
C32_Matching(rid) ==
    /\ auto.pc \in {"scan", "a_status", "a_credit"}
    /\ AutoReviewNow.reviewId = rid

(* C32: a review is matched against the pending tasks only in the cycle in *)
(* which it is marked seen. The matching step is entered only from the     *)
(* step that marks the review seen, on a review that was not seen, and     *)
(* outside that matching step a seen review approves no task, whatever     *)
(* task is submitted later, whatever failure or restart came after the     *)
(* mark, and although the listing still returns the review.                *)
C32_MatchedOnlyWhenFirstSeen ==
    /\ [][\A rid \in ReviewIds :
             (~C32_Matching(rid) /\ C32_Matching(rid)')
             => (auto.pc = "review" /\ rid \notin seen /\ rid \in seen')]_vars
    /\ [][\A rid \in ReviewIds :
             (rid \in seen /\ ~C32_Matching(rid))
             => /\ ApprovalsBy(rid)' = ApprovalsBy(rid)
                /\ rid \in seen']_vars

(* A later cycle is at review 1, which is seen and has approved nothing,   *)
(* while a pending task of app 1 that nothing has touched carries its name *)
C32_Witness ==
    /\ auto.pc = "review"
    /\ auto.apps[auto.app].id = 1
    /\ AutoReviewNow.reviewId = 1
    /\ 1 \in seen
    /\ ApprovalsBy(1) = 0
    /\ \E t \in DOMAIN tasks :
          /\ tasks[t].app_id = 1
          /\ tasks[t].status = "pending"
          /\ NameMatches(tasks[t].review_name, AutoReviewNow.userName)
          /\ tlog[t].writes = 0

(* The ids of the reviews that are older than 48 hours *)
OldIds ==
    UNION {{PlayStore[a][j].reviewId :
               j \in {k \in DOMAIN PlayStore[a] : PlayStore[a][k].old}} :
           a \in Apps}

(* C33: a review older than 48 hours is skipped entirely. The step on it   *)
(* passes on to the next review and changes nothing else, and so its id is *)
(* never in the seen set, no log message is sent for it and it is behind   *)
(* no approval.                                                            *)
C33_OldReviewSkipped ==
    /\ [](\A rid \in OldIds :
             rid \notin seen /\ rid \notin sent /\ ApprovalsBy(rid) = 0)
    /\ [][(AutoReview /\ AutoReviewNow.old)
            => /\ auto' = AutoAdvance
               /\ UNCHANGED <<seen, sent, tasks, users, tlog>>]_vars

(* A cycle over app 1 is over: the two fresh reviews are seen, and the     *)
(* pending task that carries the name of the old 5-star review 3 is        *)
(* untouched.                                                              *)
C33_Witness ==
    /\ auto.pc = "sleep"
    /\ seen = {1, 2}
    /\ sent = {1, 2}
    /\ \E t \in DOMAIN tasks :
          /\ tasks[t].app_id = 1
          /\ tasks[t].status = "pending"
          /\ NameMatches(tasks[t].review_name, <<"b">>)
          /\ tlog[t].writes = 0

(* An administrator: the owner, or a user whose record has the flag set *)
C34_Administrator(u) ==
    u = OWNER_ID \/ (users[u].exists /\ users[u].is_admin)

(* C34: only an admin, the owner or a user whose is_admin flag is set,     *)
(* resolves a task or a withdrawal by hand. A call of handle_task_action   *)
(* or handle_withdrawal_action by anyone else is answered "only admins"    *)
(* and changes no record and no balance, and every resolution in progress  *)
(* is that of an admin.                                                    *)
C34_OnlyAdminResolves ==
    /\ [](h.pc \in {"t_status", "t_credit", "wd_status", "wd_refund"}
           => C34_Administrator(h.actor))
    /\ [][\A actor \in Users, action \in {"apr", "rej"} :
             (/\ ~C34_Administrator(actor)
              /\ \/ \E t \in DOMAIN tasks : TaskRead(actor, action, t)
                 \/ \E w \in DOMAIN wds : WdRead(actor, action, w))
             => /\ h'.pc = "reply"
                /\ h'.result = "not_admin"
                /\ UNCHANGED <<users, tasks, wds, tlog, wlog>>]_vars
    /\ [][(h.pc = "reply" /\ h.result = "not_admin" /\ ManualStep)
            => (h'.pc = "idle" /\ UNCHANGED <<users, tasks, wds, tlog, wlog>>)]_vars

(* User 2, who was an admin and is one no more, pressed approve under a    *)
(* pending task and was turned away, and nothing has touched the task.     *)
C34_Witness ==
    /\ h.pc = "reply"
    /\ h.op = "handle_task_action"
    /\ h.result = "not_admin"
    /\ h.actor # OWNER_ID
    /\ h.action = "apr"
    /\ tasks[h.id].status = "pending"
    /\ tlog[h.id].writes = 0
    /\ \E w \in DOMAIN wds :
          wds[w].status = "approved" /\ wds[w].processed_by = h.actor

(* A /start of user u with referrer r in the link *)
C35_Start(u, r) == start(u, r) \/ StartGetUserFails(u, r)

(* C35: create_user writes a record, and pays the bonus, only for a user   *)
(* who has no record. A /start of a user who has one, with any referrer in *)
(* the link, changes no balance and no stored referrer; a /start that      *)
(* creates the record stores the referrer of the link, or none if the user *)
(* named themselves, and changes no other record but the referrer's, to    *)
(* which it adds the bonus.                                                *)
C35_BonusOncePerUser ==
    [][\A u \in Users, r \in Users \cup {NoRef} :
          C35_Start(u, r)
          => IF users[u].exists
             THEN users' = users
             ELSE /\ users'[u].referrer = (IF r = u THEN NoRef ELSE r)
                  /\ users'[u].balance = F(0)
                  /\ \A x \in Users \ {u} :
                        users'[x] =
                           IF x = r /\ users[x].exists
                           THEN [users[x] EXCEPT !.balance =
                                    FAdd(@, F(config.referral_bonus))]
                           ELSE users[x]]_vars

(* The sum of the stored prices of the first n tasks that are approved and *)
(* belong to user u, and the float sum of the amounts of the first n       *)
(* withdrawals of u that are pending or approved.                          *)
RECURSIVE C36_ApprovedSum(_, _)
C36_ApprovedSum(u, n) ==
    IF n = 0 THEN 0
    ELSE C36_ApprovedSum(u, n - 1)
         + (IF tasks[n].user_id = u /\ tasks[n].status = "approved"
            THEN tasks[n].price ELSE 0)

RECURSIVE C36_WithdrawnSum(_, _)
C36_WithdrawnSum(u, n) ==
    IF n = 0 THEN F(0)
    ELSE FAdd(C36_WithdrawnSum(u, n - 1),
              IF wds[n].user_id = u /\ wds[n].status \in {"pending", "approved"}
              THEN wds[n].amount ELSE F(0))

(* a == b on two floats *)
C36_FEq(a, b) == ~a.nan /\ ~b.nan /\ a.v = b.v

(* C36: when no handler and no cycle of the automation is in progress, the *)
(* balance of every user equals the prices of the user's approved tasks,   *)
(* plus the referral bonuses credited to the user, minus the amounts of    *)
(* the user's pending and approved withdrawals.                            *)
C36_LedgerConservation ==
    (h.pc = "idle" /\ auto.pc = "sleep")
    => \A u \in Users :
          users[u].exists
          => C36_FEq(users[u].balance,
                     FAdd(F(C36_ApprovedSum(u, Len(tasks)) + bonuses[u]),
                          FNeg(C36_WithdrawnSum(u, Len(wds)))))

(* C37: every step of withdraw_amount that lowers a balance creates the    *)
(* withdrawal record of that debit: a pending record of the same user and  *)
(* the same amount. A debit whose record could not be created is undone,   *)
(* so it never shows in a state.                                           *)
C37_DebitHasRecord ==
    [][\A u \in Users :
          (h.pc = "wa_write" /\ users'[u].balance # users[u].balance)
          => /\ Len(wds') = Len(wds) + 1
             /\ wds'[Len(wds')].user_id = u
             /\ wds'[Len(wds')].amount = h.amount
             /\ wds'[Len(wds')].status = "pending"]_vars

(* A step of user u's submission conversation or withdrawal request: the   *)
(* conversation of u moves, or withdraw_amount writes for u.               *)
C38_StepOf(u) ==
    \/ conv'[u] # conv[u]
    \/ h.pc = "wa_write" /\ h.actor = u

(* C38: a step of the submission conversation or of the withdrawal request *)
(* of a user whose is_blocked flag is set creates no task, creates no      *)
(* withdrawal and changes no balance.                                      *)
C38_BlockedCreatesNothing ==
    [][\A u \in Users :
          (users[u].exists /\ users[u].is_blocked /\ C38_StepOf(u))
          => /\ tasks' = tasks
             /\ wds' = wds
             /\ \A x \in Users : users'[x].balance = users[x].balance]_vars

====
